---- MODULE Spec2Model ----
(***************************************************************************)
(* asus_qca_fix_checksum: checksum fix for ASUS QCA/QCN SoC uImage.        *)
(*                                                                         *)
(* The model follows src/src/asus_qca_fix_checksum.c on an LP64 host       *)
(* (size_t and off_t are 64 bits wide) with little-endian 16-bit fields.   *)
(* Memory is byte-addressed: filebuf maps addresses relative to the        *)
(* malloc'ed pointer to bytes, and it also holds the heap bytes that       *)
(* follow the st_size bytes of the allocation, so that an access past the  *)
(* allocation reads or writes a value that is there but is nobody's to     *)
(* rely on (is arbitrary).                                                 *)
(***************************************************************************)
EXTENDS Integers, Sequences, FiniteSets, TLC

\* ------------------------------------------------------------ bounds
\* options on the command line
MaxArgs == 4
\* byte patterns the input file is filled with: 0..MaxSeed
MaxSeed == 1

\* ------------------------------------------------- program constants
MAX_STRING == 12
MAX_VER == 5
IH_NMLEN == 32
\* sizeof(image_header_t): 7 uint32_t, 4 uint8_t, a 32-byte union
HeaderSize == 64
\* sizeof(TAIL): 2+2 version bytes, productid, sn, en, pkey, key, hw
TailSize == 32
\* offsetof(image_header_t, ih_hcrc), ih_size and u
OffHcrc == 4
OffSize == 12
OffName == 32

NULL == "NULL"
\* a path with no file behind it
NoFile == [exists |-> FALSE, data |-> << >>]

\* ------------------------------------------------------ bit arithmetic
RECURSIVE Xor(_, _)
Xor(a, b) ==
    IF a = 0 THEN b
    ELSE IF b = 0 THEN a
    ELSE (((a % 2) + (b % 2)) % 2) + 2 * Xor(a \div 2, b \div 2)

\* ------------------------------------------------------ 32-bit words
\* TLC's integers are 32-bit signed, so an uint32_t (and the size_t sum it is
\* widened to) is held as << high part, low 16 bits >>: value = w[1] * 65536 + w[2].
W16 == 256 * 256

\* ntohl of the 4 bytes at off: the big-endian value, in host order
ntohl(buf, off) == << buf[off] * 256 + buf[off + 1], buf[off + 2] * 256 + buf[off + 3] >>

\* the 4 bytes htonl(w) leaves in memory, first byte first
htonl(w) == << w[1] \div 256, w[1] % 256, w[2] \div 256, w[2] % 256 >>

\* w + n in size_t (64 bits: the carry out of bit 31 is kept), n < 65536
AddSizeT(w, n) == << w[1] + ((w[2] + n) \div W16), (w[2] + n) % W16 >>

\* w >> 1
Shr1(w) == << w[1] \div 2, (w[1] % 2) * 32768 + (w[2] \div 2) >>

\* the conversion of a size_t to uint32_t
ToUint32(w) == << w[1] % W16, w[2] >>

\* a non-negative off_t as a word
OfInt(n) == << n \div W16, n % W16 >>

\* a < b on words
WordLess(a, b) == a[1] < b[1] \/ (a[1] = b[1] /\ a[2] < b[2])

\* the word as an integer, for a word that is a valid index of the model
ToInt(w) == w[1] * W16 + w[2]

\* ------------------------------------------------------ crc32 (zlib)
\* reflected polynomial 0xEDB88320
CrcPoly == << 60856, 33568 >>

XorW(a, b) == << Xor(a[1], b[1]), Xor(a[2], b[2]) >>

RECURSIVE CrcBits(_, _)
CrcBits(c, n) ==
    IF n = 0 THEN c
    ELSE CrcBits(IF c[2] % 2 = 1 THEN XorW(CrcPoly, Shr1(c)) ELSE Shr1(c), n - 1)

CrcTable == [n \in 0..255 |-> CrcBits(<< 0, n >>, 8)]

\* one byte more: crc = crc_table[(crc ^ byte) & 0xff] ^ (crc >> 8)
CrcByte(c, byte) ==
    XorW(CrcTable[Xor(c[2] % 256, byte)],
         << c[1] \div 256, (c[1] % 256) * 256 + (c[2] \div 256) >>)

\* the register after the bytes buf[lo..hi-1], taken in order. The range is
\* halved rather than walked and the left half is computed (the test of left)
\* before the right half starts, which keeps the evaluation shallow.
RECURSIVE CrcRange(_, _, _, _)
CrcRange(c, buf, lo, hi) ==
    IF hi = lo THEN c
    ELSE IF hi = lo + 1 THEN CrcByte(c, buf[lo])
    ELSE LET mid == (lo + hi) \div 2
             left == CrcRange(c, buf, lo, mid)
         IN  IF left[1] >= 0 THEN CrcRange(left, buf, mid, hi) ELSE left

\* crc32(0, buf, len) of zlib over buf[0..len-1]
crc32(buf, len) ==
    LET c == CrcRange(<< 65535, 65535 >>, buf, 0, len)
    IN  << 65535 - c[1], 65535 - c[2] >>

\* ------------------------------------------------------ TAIL
\* TAIL tail = {}: every member zero
ZeroTail ==
    [ kernel |-> [major |-> 0, minor |-> 0],
      fs |-> [major |-> 0, minor |-> 0],
      productid |-> [i \in 0..(MAX_STRING - 1) |-> 0],
      sn |-> 0, en |-> 0, pkey |-> 0, key |-> 0,
      hw |-> [i \in 0..(2 * MAX_VER - 1) |-> 0] ]

\* the 32 bytes of a TAIL in memory: no padding, uint16_t low byte first
TailBytes(t) ==
    [ i \in 0..(TailSize - 1) |->
        IF i = 0 THEN t.kernel.major
        ELSE IF i = 1 THEN t.kernel.minor
        ELSE IF i = 2 THEN t.fs.major
        ELSE IF i = 3 THEN t.fs.minor
        ELSE IF i < 4 + MAX_STRING THEN t.productid[i - 4]
        ELSE IF i = 16 THEN t.sn % 256
        ELSE IF i = 17 THEN t.sn \div 256
        ELSE IF i = 18 THEN t.en % 256
        ELSE IF i = 19 THEN t.en \div 256
        ELSE IF i = 20 THEN t.pkey
        ELSE IF i = 21 THEN t.key
        ELSE t.hw[i - 22] ]

\* ------------------------------------------------------ sscanf
\* A version string is a sequence of characters out of the digits, "." and
\* "x" (any character that is neither); no blanks and no signs occur.
Digit ==
    [ c \in {"0", "1", "2", "3", "4", "5", "6", "7", "8", "9"} |->
        CASE c = "0" -> 0 [] c = "1" -> 1 [] c = "2" -> 2 [] c = "3" -> 3
          [] c = "4" -> 4 [] c = "5" -> 5 [] c = "6" -> 6 [] c = "7" -> 7
          [] c = "8" -> 8 [] c = "9" -> 9 ]

IsDigit(c) == c \in DOMAIN Digit

\* the digits from position p on, as a number stored in a field of width w
RECURSIVE ScanDigits(_, _, _, _)
ScanDigits(s, p, acc, w) ==
    IF p <= Len(s) /\ IsDigit(s[p])
    THEN ScanDigits(s, p + 1, (acc * 10 + Digit[s[p]]) % w, w)
    ELSE << acc, p >>

\* %hhu for the first four conversions, %hu for the last two
FieldWidth(k) == IF k <= 4 THEN 256 ELSE 65536

\* the conversions of "%hhu.%hhu.%hhu.%hhu.%hu.%hu" that succeed, in order
RECURSIVE ScanFields(_, _, _, _)
ScanFields(s, p, k, vals) ==
    IF k > 6 THEN vals
    ELSE IF k > 1 /\ (p > Len(s) \/ s[p] # ".") THEN vals
    ELSE LET q == IF k = 1 THEN p ELSE p + 1
         IN  IF q > Len(s) \/ ~IsDigit(s[q]) THEN vals
             ELSE LET r == ScanDigits(s, q, 0, FieldWidth(k))
                  IN  ScanFields(s, r[2], k + 1, Append(vals, r[1]))

sscanf(s) == ScanFields(s, 1, 1, << >>)

\* case 'v' of main: sscanf stores the conversions that succeed into tail
ParseVersion(t, s) ==
    LET v == sscanf(s)
        n == Len(v)
    IN  [ t EXCEPT !.kernel.major = IF n >= 1 THEN v[1] ELSE @,
                   !.kernel.minor = IF n >= 2 THEN v[2] ELSE @,
                   !.fs.major = IF n >= 3 THEN v[3] ELSE @,
                   !.fs.minor = IF n >= 4 THEN v[4] ELSE @,
                   !.sn = IF n >= 5 THEN v[5] ELSE @,
                   !.en = IF n >= 6 THEN v[6] ELSE @ ]

\* if (!infname || !outfname || !version)
MissingArgsNoVersion(inf, outf, ver) == inf = NULL \/ outf = NULL
MissingArgs(inf, outf, ver) == inf = NULL \/ outf = NULL \/ ver = NULL

\* ------------------------------------------------------ fix_checksum
\* (ntohl(header->ih_size) + sizeof(image_header_t)) >> 1, with a 32-bit size_t
ChecksumBOffset32(image) ==
    Shr1(ToUint32(AddSizeT(ntohl(image, OffSize), HeaderSize)))
\* (ntohl(header->ih_size) + sizeof(image_header_t)) >> 1 into an uint32_t
ChecksumBOffset(image) ==
    ToUint32(Shr1(AddSizeT(ntohl(image, OffSize), HeaderSize)))

\* image_len < checksum_b_offset
TooSmall(image_len, off) == WordLess(OfInt(image_len), off)

\* checksum_a + ~checksum_b in int, stored into an uint8_t
KeyOf(a, b) == (a + (-b - 1)) % 256

\* memcpy with sizeof(tail->productid), the last byte included
CopyProductIdFull(t, image) ==
    [ t EXCEPT !.productid = [i \in 0..(MAX_STRING - 1) |-> image[OffName + i]] ]
\* memcpy out of the productid of the tail the header already holds
CopyProductIdFromTail(t, image) ==
    [ t EXCEPT !.productid =
        [ i \in 0..(MAX_STRING - 1) |->
            IF i < MAX_STRING - 1 THEN image[OffName + 4 + i] ELSE t.productid[i] ] ]
\* memcpy(&tail->productid, &header->u.ih_name, sizeof(tail->productid) - 1)
CopyProductId(t, image) ==
    [ t EXCEPT !.productid =
        [ i \in 0..(MAX_STRING - 1) |->
            IF i < MAX_STRING - 1 THEN image[OffName + i] ELSE t.productid[i] ] ]

\* the overlay of a TAIL that ends in two bytes of padding
OverlayPadded(image, t) ==
    [ i \in DOMAIN image |->
        IF i >= OffName /\ i < OffName + TailSize THEN TailBytes(t)[i - OffName]
        ELSE IF i >= OffName + TailSize /\ i < OffName + TailSize + 2 THEN 0
        ELSE image[i] ]
\* header->u.tail = *tail
Overlay(image, t) ==
    [ i \in DOMAIN image |->
        IF i >= OffName /\ i < OffName + TailSize THEN TailBytes(t)[i - OffName]
        ELSE image[i] ]

\* header->ih_hcrc = the 4 bytes b
StoreHcrc(image, b) ==
    [ i \in DOMAIN image |->
        IF i >= OffHcrc /\ i < OffHcrc + 4 THEN b[i - OffHcrc + 1] ELSE image[i] ]

\* fix_checksum with checksum_b read after the overlay
FixChecksumLateRead(image, off, a, t) ==
    LET t1 == CopyProductId(t, image)
        img0 == Overlay(image, t1)
        t2 == [t1 EXCEPT !.key = KeyOf(a, img0[ToInt(off)])]
        img1 == Overlay(image, t2)
        img2 == StoreHcrc(img1, << 0, 0, 0, 0 >>)
    IN  [ image |-> StoreHcrc(img2, htonl(crc32(img2, HeaderSize))), tail |-> t2 ]
\* fix_checksum with the CRC taken before the overlay
FixChecksumCrcFirst(image, off, a, t) ==
    LET t1 == [t EXCEPT !.key = KeyOf(a, image[ToInt(off)])]
        t2 == CopyProductId(t1, image)
        img0 == StoreHcrc(image, << 0, 0, 0, 0 >>)
        crc == crc32(img0, HeaderSize)
    IN  [ image |-> StoreHcrc(Overlay(img0, t2), htonl(crc)), tail |-> t2 ]
\* lines 92..104 of fix_checksum: the buffer and *tail it leaves
FixChecksumBody(image, off, a, t) ==
    LET checksum_b == image[ToInt(off)]
        t1 == [t EXCEPT !.key = KeyOf(a, checksum_b)]
        t2 == CopyProductId(t1, image)
        img1 == Overlay(image, t2)
        img2 == StoreHcrc(img1, << 0, 0, 0, 0 >>)
        recalc_crc == crc32(img2, HeaderSize)
    IN  [ image |-> StoreHcrc(img2, htonl(recalc_crc)), tail |-> t2 ]

\* the addresses lines 79 and 81 read
EntryAccesses == {0} \cup (OffSize..(OffSize + 3))
\* the addresses lines 92..104 read or write
BodyAccesses(off) == {ToInt(off)} \cup (0..(HeaderSize - 1))

\* ------------------------------------------------------ the environment
\* the version strings of the command lines
V6 == << "3", ".", "0", ".", "0", ".", "4", ".", "3", "8", "2", ".",
         "5", "2", "4", "8", "2" >>
V2 == << "1", ".", "2" >>
V1x == << "7", ".", "x" >>
V0 == << >>
Versions == {V6, V2, V1x, V0}

\* byte i of an input file: pattern 0 is all zero
Pattern(seed, i) == IF seed = 0 THEN 0 ELSE (i * 37 + seed * 101) % 256

\* a file of len bytes whose bytes 12..15 (where it has them) are ih_size = ds
InputFile(len, ds, seed) ==
    [ j \in 1..len |->
        IF j - 1 >= OffSize /\ j - 1 < OffSize + 4 THEN htonl(ds)[j - OffSize]
        ELSE Pattern(seed, j - 1) ]

\* ih_size values: checksum_b_offset 32, 53, 96, 97 and 2^31 + 31
DataSizes == { << 0, 0 >>, << 0, 42 >>, << 0, 128 >>, << 0, 130 >>, << 65535, 65535 >> }
SmallLens == {0, 10, 40, 96}
\* ih_size 1024 (checksum_b_offset 544) in files of 500, 1000 and 2000 bytes
BigLens == {500, 1000, 2000}

InputFiles ==
    { InputFile(len, ds, seed) : len \in SmallLens, ds \in DataSizes, seed \in 0..MaxSeed }
    \cup { InputFile(len, << 0, 1024 >>, 1) : len \in BigLens }

\* what the heap holds where nothing was stored: one of two contents
JunkKinds == {0, 1}
Junk(g, i) == (i * 11 + g * 53 + 7) % 256

\* the addresses the model keeps of a block of n bytes: the block, and the heap
\* after it as far as fix_checksum can reach
MemTop(n) == IF n + 1 > HeaderSize THEN n + 1 ELSE HeaderSize

\* what the output path holds before the run: nothing, or more than the input
OldOutput(n) == { NoFile, [exists |-> TRUE, data |-> [j \in 1..(n + 2) |-> 238]] }

\* open(outfname, O_WRONLY | O_CREAT, 0644): an existing file keeps its content
OpenCreate(old) == [exists |-> TRUE, data |-> old.data]

\* the file after write() stored the first n bytes of buf at offset 0
WriteAt0(old, buf, n) ==
    [ old EXCEPT !.data =
        [ j \in 1..(IF Len(old.data) > n THEN Len(old.data) ELSE n) |->
            IF j <= n THEN buf[j - 1] ELSE old.data[j] ] ]

\* ------------------------------------------------------ state
VARIABLES
    pc,                 \* where main is
    status,             \* the exit status, "running" before the exit
    pass,               \* 1: the run on the input; 2: the run on its own output
    optleft,            \* options of the command line getopt has yet to hand out
    infname, outfname, version,
    tail,               \* TAIL tail of main
    tail_main,          \* history: tail as main hands it to fix_checksum
    infile, outfile,    \* the files behind infname and outfname
    opened,             \* history: the paths opened or created
    events,             \* history: the calls that failed
    st_size,            \* statbuf.st_size
    filebuf,            \* the memory at filebuf, address -> byte
    checksum_a, checksum_b_offset,
    image0,             \* history: filebuf as fix_checksum found it
    accessed,           \* history: the addresses fix_checksum read or wrote
    wrote               \* history: bytes written to the output

vars == << pc, status, pass, optleft, infname, outfname, version, tail, tail_main,
           infile, outfile, opened, events, st_size, filebuf, checksum_a,
           checksum_b_offset, image0, accessed, wrote >>

args == << optleft, infname, outfname, version, tail, tail_main >>
files == << infile, outfile, opened, wrote >>
buffer == << st_size, filebuf, checksum_a, checksum_b_offset, image0, accessed >>

Init ==
    /\ pc = "getopt"
    /\ status = "running"
    /\ pass = 1
    /\ optleft \in 0..MaxArgs
    /\ infname = NULL /\ outfname = NULL /\ version = NULL
    /\ tail = ZeroTail
    /\ tail_main = ZeroTail
    /\ infile = << >> /\ outfile = NoFile
    /\ opened = {}
    /\ events = {}
    /\ st_size = 0
    /\ filebuf = << >>
    /\ checksum_a = 0 /\ checksum_b_offset = << 0, 0 >>
    /\ image0 = << >>
    /\ accessed = {}
    /\ wrote = 0

\* exit(code), or the return from main
Exit(code) == pc' = "exit" /\ status' = code

\* a call failed: the message, then exit(1)
Fail(what) == Exit(1) /\ events' = events \cup {what}

\* ------------------------------------------------------ main: the options
GetoptI ==
    /\ pc = "getopt" /\ optleft > 0
    /\ infname' = "in"
    /\ optleft' = optleft - 1
    /\ UNCHANGED << pc, status, pass, outfname, version, tail, tail_main,
                    files, events, buffer >>

GetoptO ==
    /\ pc = "getopt" /\ optleft > 0
    /\ outfname' = "out"
    /\ optleft' = optleft - 1
    /\ UNCHANGED << pc, status, pass, infname, version, tail, tail_main,
                    files, events, buffer >>

GetoptV ==
    /\ pc = "getopt" /\ optleft > 0
    /\ \E optarg \in Versions :
        /\ version' = optarg
        /\ tail' = ParseVersion(tail, optarg)
    /\ optleft' = optleft - 1
    /\ UNCHANGED << pc, status, pass, infname, outfname, tail_main,
                    files, events, buffer >>

\* an option that is none of i, o, v: default: break
GetoptOther ==
    /\ pc = "getopt" /\ optleft > 0
    /\ optleft' = optleft - 1
    /\ UNCHANGED << pc, status, pass, infname, outfname, version, tail, tail_main,
                    files, events, buffer >>

\* getopt returns -1
GetoptEnd ==
    /\ pc = "getopt" /\ optleft = 0
    /\ pc' = "args"
    /\ tail_main' = tail
    /\ UNCHANGED << status, pass, optleft, infname, outfname, version, tail,
                    files, events, buffer >>

CheckArgs ==
    /\ pc = "args"
    /\ IF MissingArgs(infname, outfname, version)
       THEN Exit(1)
       ELSE pc' = "open_in" /\ UNCHANGED status
    /\ UNCHANGED << pass, args, files, events, buffer >>

\* ------------------------------------------------------ main: the files
OpenInput ==
    /\ pc = "open_in"
    /\ \/ /\ pc' = "open_out"
          /\ opened' = opened \cup {infname}
          /\ IF pass = 1 THEN infile' \in InputFiles ELSE UNCHANGED infile
          /\ UNCHANGED << status, events >>
       \/ /\ Fail("open_in")
          /\ UNCHANGED << infile, opened >>
    /\ UNCHANGED << pass, args, outfile, wrote, buffer >>

OpenOutput ==
    /\ pc = "open_out"
    /\ \/ /\ pc' = "fstat"
          /\ opened' = opened \cup {outfname}
          /\ \E old \in OldOutput(Len(infile)) : outfile' = OpenCreate(old)
          /\ UNCHANGED << status, events >>
       \/ /\ Fail("open_out")
          /\ UNCHANGED << outfile, opened >>
    /\ UNCHANGED << pass, args, infile, wrote, buffer >>

Fstat ==
    /\ pc = "fstat"
    /\ \/ /\ pc' = "malloc"
          /\ st_size' = Len(infile)
          /\ UNCHANGED << status, events >>
       \/ /\ Fail("fstat")
          /\ UNCHANGED st_size
    /\ UNCHANGED << pass, args, files, filebuf, checksum_a, checksum_b_offset,
                    image0, accessed >>

Malloc ==
    /\ pc = "malloc"
    /\ \/ /\ pc' = "read"
          /\ \E g \in JunkKinds :
                filebuf' = [i \in 0..(MemTop(st_size) - 1) |-> Junk(g, i)]
          /\ UNCHANGED << status, events >>
       \/ /\ Fail("malloc")
          /\ UNCHANGED filebuf
    /\ UNCHANGED << pass, args, files, st_size, checksum_a, checksum_b_offset,
                    image0, accessed >>

\* read(ifd, filebuf, st_size) stores rsz bytes; rsz short of st_size is fatal
Read ==
    /\ pc = "read"
    /\ \E rsz \in {st_size, st_size \div 2} :
        /\ filebuf' = [i \in DOMAIN filebuf |-> IF i < rsz THEN infile[i + 1] ELSE filebuf[i]]
        /\ IF rsz # st_size
           THEN Fail("read")
           ELSE pc' = "fix_checksum" /\ UNCHANGED << status, events >>
    /\ UNCHANGED << pass, args, files, st_size, checksum_a, checksum_b_offset,
                    image0, accessed >>

\* ------------------------------------------------------ fix_checksum
\* lines 76..90: the offsets, checksum_a and the size check
FixChecksumCheck ==
    /\ pc = "fix_checksum"
    /\ image0' = filebuf
    /\ accessed' = EntryAccesses
    /\ checksum_b_offset' = ChecksumBOffset(filebuf)
    /\ checksum_a' = filebuf[0]
    /\ IF TooSmall(st_size, checksum_b_offset')
       THEN Exit(1)
       ELSE pc' = "patch" /\ UNCHANGED status
    /\ UNCHANGED << pass, args, files, events, st_size, filebuf >>

\* lines 92..104
FixChecksumPatch ==
    /\ pc = "patch"
    /\ LET r == FixChecksumBody(filebuf, checksum_b_offset, checksum_a, tail)
       IN  filebuf' = r.image /\ tail' = r.tail
    /\ accessed' = accessed \cup BodyAccesses(checksum_b_offset)
    /\ pc' = "write"
    /\ UNCHANGED << status, pass, optleft, infname, outfname, version, tail_main,
                    files, events, st_size, checksum_a, checksum_b_offset, image0 >>

\* write(ofd, filebuf, st_size) stores rsz bytes; rsz short of st_size is fatal
Write ==
    /\ pc = "write"
    /\ \E rsz \in {st_size, st_size \div 2} :
        /\ outfile' = WriteAt0(outfile, filebuf, rsz)
        /\ wrote' = wrote + rsz
        /\ IF rsz # st_size
           THEN Fail("write")
           ELSE Exit(0) /\ UNCHANGED events
    /\ UNCHANGED << pass, args, infile, opened, buffer >>

\* the program is run again, with the same options, on the file it wrote
Rerun ==
    /\ pc = "exit" /\ status = 0 /\ pass = 1
    /\ pass' = 2
    /\ pc' = "args"
    /\ status' = "running"
    /\ tail' = tail_main
    /\ infile' = outfile.data
    /\ outfile' = NoFile
    /\ opened' = {} /\ events' = {} /\ wrote' = 0
    /\ st_size' = 0 /\ filebuf' = << >>
    /\ checksum_a' = 0 /\ checksum_b_offset' = << 0, 0 >>
    /\ image0' = << >> /\ accessed' = {}
    /\ UNCHANGED << optleft, infname, outfname, version, tail_main >>

Next ==
    \/ GetoptI \/ GetoptO \/ GetoptV \/ GetoptOther \/ GetoptEnd
    \/ CheckArgs
    \/ OpenInput \/ OpenOutput \/ Fstat \/ Malloc \/ Read
    \/ FixChecksumCheck \/ FixChecksumPatch
    \/ Write
    \/ Rerun

Spec == Init /\ [][Next]_vars

\* ------------------------------------------------------ properties
\* fix_checksum has returned: filebuf is the patched buffer, image0 the buffer
\* it was handed and tail the record it overlaid
Patched == pc = "write" \/ (pc = "exit" /\ (status = 0 \/ "write" \in events))

\* the size check of fix_checksum has been made
Checked == image0 # << >>

\* floor((data_size + 64) / 2) for the big-endian data_size at bytes 12..15 of
\* img, as a word: data_size \div 2 + 32, no bit dropped
HalvedSum(img) ==
    LET hi == img[12] * 256 + img[13]
        lo == img[14] * 256 + img[15]
        low == (hi % 2) * 32768 + (lo \div 2) + 32
    IN  << (hi \div 2) + (low \div W16), low % W16 >>

\* the buffer length is smaller than the halved sum
Short == Checked /\ WordLess(OfInt(st_size), HalvedSum(image0))

\* the address of TAIL.key in the header
KeyAt == OffName + 21
\* the address of TAIL.productid in the header
ProductIdAt == OffName + 4

\* the CRC-32 check value: crc32("123456789") = 0xCBF43926
CrcCheckValue ==
    crc32([i \in 0..8 |-> 49 + i], 9) = << 52212, 14630 >>

\* C1: after fix_checksum the key byte is (checksum_a + (255 - checksum_b)) mod
\* 256, checksum_a being byte 0 and checksum_b the byte at the exact halved sum
\* floor((data_size + 64) / 2), both as the buffer held them before the overlay.
C1_KeyByte ==
    Patched =>
        LET off == HalvedSum(image0)
        IN  /\ off[1] = 0
            /\ off[2] \in DOMAIN image0
            /\ tail.key = (image0[0] + (255 - image0[off[2]])) % 256
            /\ filebuf[KeyAt] = tail.key

\* C1 witness: a patched buffer whose checksum_b lies in the name region and
\* was changed there by the overlay
C1_Witness ==
    /\ Patched
    /\ HalvedSum(image0)[1] = 0
    /\ HalvedSum(image0)[2] >= OffName
    /\ HalvedSum(image0)[2] < HeaderSize
    /\ HalvedSum(image0)[2] < st_size
    /\ filebuf[HalvedSum(image0)[2]] # image0[HalvedSum(image0)[2]]

\* C2 as stated: a buffer shorter than the halved sum ends the run with status 1
\* and nothing written, a write happens only after the check has passed, and
\* with data_size 1024 a 2000-byte buffer passes while a 1000-byte buffer fails.
C2_Original ==
    /\ Short => pc = "exit" /\ status = 1 /\ wrote = 0
    /\ wrote > 0 => Checked /\ ~Short
    /\ (Checked /\ ntohl(image0, OffSize) = << 0, 1024 >> /\ st_size = 2000)
            => pc = "patch" \/ Patched
    /\ (Checked /\ ntohl(image0, OffSize) = << 0, 1024 >> /\ st_size = 1000)
            => pc = "exit" /\ status = 1 /\ wrote = 0

\* C2 amended: a buffer shorter than the halved sum ends the run with status 1
\* and nothing written, a write happens only after the check has passed, and
\* with data_size 1024 (offset 544) the 2000-byte and the 1000-byte buffer both
\* pass while a 500-byte buffer fails.
C2_SizeCheck ==
    /\ Short => pc = "exit" /\ status = 1 /\ wrote = 0
    /\ wrote > 0 => Checked /\ ~Short
    /\ (Checked /\ ntohl(image0, OffSize) = << 0, 1024 >>) =>
        /\ HalvedSum(image0) = << 0, 544 >>
        /\ st_size \in {1000, 2000} => pc = "patch" \/ Patched
        /\ st_size = 500 => pc = "exit" /\ status = 1 /\ wrote = 0

\* C2 witness: the 500-byte buffer with data_size 1024 was rejected
C2_Witness ==
    /\ Short
    /\ st_size = 500
    /\ ntohl(image0, OffSize) = << 0, 1024 >>
    /\ pc = "exit" /\ status = 1 /\ wrote = 0

\* C3: after fix_checksum header bytes 4..7 are, big-endian, the standard
\* CRC-32 of the final 64 header bytes (tail overlaid) with bytes 4..7 zero.
C3_HeaderCrc ==
    /\ CrcCheckValue
    /\ Patched =>
        LET zeroed == [i \in 0..(HeaderSize - 1) |->
                          IF i \in OffHcrc..(OffHcrc + 3) THEN 0 ELSE filebuf[i]]
        IN  << filebuf[4], filebuf[5], filebuf[6], filebuf[7] >>
                = htonl(crc32(zeroed, HeaderSize))

\* C3 witness: a patched header whose name region differs from the one read
C3_Witness ==
    /\ Patched
    /\ st_size >= HeaderSize
    /\ \E i \in OffName..(HeaderSize - 1) : filebuf[i] # image0[i]

\* C4: the first 11 bytes of productid (header bytes 36..46) are the first 11
\* bytes of the name the buffer held (bytes 32..42), whatever the name; byte 47
\* is the 12th byte the tail had before the copy, which is zero out of main.
C4_ProductId ==
    Patched =>
        /\ \A i \in 0..(MAX_STRING - 2) : filebuf[ProductIdAt + i] = image0[OffName + i]
        /\ filebuf[ProductIdAt + MAX_STRING - 1] = tail_main.productid[MAX_STRING - 1]
        /\ tail_main.productid[MAX_STRING - 1] = 0
        /\ (pc = "exit" /\ status = 0) =>
              \A i \in 0..(MAX_STRING - 1) :
                  ProductIdAt + i < st_size =>
                      outfile.data[ProductIdAt + i + 1] = filebuf[ProductIdAt + i]

\* C4 witness: a run that ended with status 0 on a name with no NUL in its
\* first 12 bytes
C4_Witness ==
    /\ Patched /\ pc = "exit" /\ status = 0
    /\ st_size >= HeaderSize
    /\ \A i \in 0..(MAX_STRING - 1) : image0[OffName + i] # 0

\* C5: fix_checksum changes bytes 4..7 and 32..63 only: every other byte of the
\* memory, payload included, and the buffer length are as they were.
C5_Frame ==
    Patched =>
        /\ DOMAIN filebuf = DOMAIN image0
        /\ st_size = Len(infile)
        /\ \A i \in DOMAIN filebuf :
              (i \notin OffHcrc..(OffHcrc + 3) /\ i \notin OffName..(OffName + IH_NMLEN - 1))
                  => filebuf[i] = image0[i]

\* C5 witness: a patched buffer with payload behind the header
C5_Witness ==
    /\ Patched
    /\ st_size > HeaderSize
    /\ \E i \in OffName..(HeaderSize - 1) : filebuf[i] # image0[i]

\* component k of the version string, zero where the string has none
Component(s, k) == IF k <= Len(sscanf(s)) THEN sscanf(s)[k] ELSE 0

\* C6: when the last -v string has k < 6 components, the tail handed to
\* fix_checksum has its first k fields from them and every other field zero.
C6_PartialVersion ==
    (pc # "getopt" /\ version # NULL /\ Len(sscanf(version)) < 6) =>
        tail_main =
            [ ZeroTail EXCEPT !.kernel = [major |-> Component(version, 1),
                                          minor |-> Component(version, 2)],
                              !.fs = [major |-> Component(version, 3),
                                      minor |-> Component(version, 4)],
                              !.sn = Component(version, 5),
                              !.en = Component(version, 6) ]

\* a flag of the three is missing
MissingFlag == infname = NULL \/ outfname = NULL \/ version = NULL

\* C7: a run ends with status 0 or 1, 1 exactly when a fatal condition occurred
\* (missing flag, failed open, fstat, malloc, read or write, image too small);
\* with a flag missing it exits 1 with no file opened or created.
C7_ExitStatus ==
    /\ pc = "exit" =>
          /\ status \in {0, 1}
          /\ status = 1 <=> (MissingFlag \/ events # {} \/ Short)
    /\ (pc # "getopt" /\ MissingFlag) => opened = {} /\ pc \in {"args", "exit"}

\* C7 witness: a run without -v has exited with status 1 and no file opened
C7_Witness ==
    /\ pc = "exit" /\ status = 1
    /\ infname # NULL /\ outfname # NULL /\ version = NULL
    /\ opened = {}

C9_OutputIsBuffer ==
    (pc = "exit" /\ status = 0) =>
        /\ Len(outfile.data) = Len(infile)
        /\ \A j \in 1..Len(outfile.data) : j <= st_size /\ outfile.data[j] = filebuf[j - 1]

\* C10: every address fix_checksum reads or writes is below image_len.
C10_InBounds == \A i \in accessed : i < st_size
====
